---- MODULE Spec2Model ----
(***************************************************************************)
(* quickrest: a REST client builder.  The module models the revision of   *)
(* the library that carries verbFactory, place and normalize              *)
(* (src/unnamed/part_004, lines 1-378): construction (validateConfig,     *)
(* chooseDependencies, buildResources, normalize, build), navigation of   *)
(* the compiled hierarchy, and verb invocations with the beforeEach hook, *)
(* the request function and the promises they produce.                    *)
(*                                                                         *)
(* Strings.  A URL or a root is a sequence of tokens; the characters of   *)
(* the root are one-character tokens, a resource name or an identifier is *)
(* one token.  An endpoint declaration string is a sequence of tokens in  *)
(* which "/" is the separator and every other token is a whole name, so   *)
(* that split('/') is computed, not assumed.                              *)
(***************************************************************************)
EXTENDS Integers, Sequences, FiniteSets, TLC

VARIABLES
    cfg,        \* the configuration object handed to quickrest(config)
    phase,      \* "new" | "ready" (constructed) | "threw" (construction threw)
    heap,       \* the objects of the compiled hierarchy, by reference 1..Len(heap)
    api,        \* reference of the object quickrest(config) returned (0: none)
    cur,        \* per caller variable: the object it holds (0: none)
    chain,      \* per caller variable: the navigation steps that produced cur
    invs,       \* the verb invocation made at the end of the current chain
    calls,      \* the calls of the request function it made
    promises,   \* the promises created for it
    delivered   \* the invocations of the caller's callback made for it

vars == <<cfg, phase, heap, api, cur, chain, invs, calls, promises, delivered>>

----------------------------------------------------------------------------
(* Bounds of the model *)

\* navigation calls resource(id) per run
MaxNav == 2
\* endpoint declarations per configuration
MaxEndpoints == 2

----------------------------------------------------------------------------
(* Generic helpers: JavaScript built-ins and lodash functions *)

EmptyMap == [x \in {} |-> ""]

\* Object.assign(target, source): own keys of source overwrite those of target
Assign(target, source) ==
    [x \in (DOMAIN target) \cup (DOMAIN source) |->
        IF x \in DOMAIN source THEN source[x] ELSE target[x]]

RECURSIVE Reverse(_)
Reverse(s) == IF s = <<>> THEN <<>> ELSE Append(Reverse(Tail(s)), Head(s))

\* lodash.compact: drops the falsy elements (here: the empty string)
compact(xs) == SelectSeq(xs, LAMBDA x : x # "")

RECURSIVE TrimLeft(_)
TrimLeft(s) ==
    IF s # <<>> /\ Head(s) = " " THEN TrimLeft(Tail(s)) ELSE s

\* String.prototype.trim
Trim(s) == Reverse(TrimLeft(Reverse(TrimLeft(s))))

\* String.prototype.endsWith('/')
EndsWithSlash(s) == Len(s) > 0 /\ s[Len(s)] = "/"

\* lodash.dropwhile(xs, matches('/'))
RECURSIVE DropWhileSlash(_)
DropWhileSlash(s) ==
    IF s # <<>> /\ Head(s) = "/" THEN DropWhileSlash(Tail(s)) ELSE s

\* String.prototype.split('/'): the pieces between separators, empty pieces
\* included ("" splits into one empty piece)
RECURSIVE SplitAcc(_, _, _)
SplitAcc(s, piece, acc) ==
    IF s = <<>> THEN Append(acc, piece)
    ELSE IF Head(s) = "/" THEN SplitAcc(Tail(s), "", Append(acc, piece))
    ELSE SplitAcc(Tail(s), Head(s), acc)

Split(s) == SplitAcc(s, "", <<>>)

\* A value that is a string, a list of strings or undefined is a record
\* [t, s, l] with t in {"none", "str", "list"}.
NoValue == [t |-> "none", s |-> "", l |-> <<>>]
StrValue(x) == [t |-> "str", s |-> x, l |-> <<>>]
ListValue(xs) == [t |-> "list", s |-> "", l |-> xs]

\* JavaScript truthiness of such a value: a non-empty string or any array
Truthy(x) == (x.t = "str" /\ x.s # "") \/ x.t = "list"

\* [].concat(x): undefined and '' become one falsy element
ConcatToList(x) == IF x.t = "list" THEN x.l ELSE <<x.s>>

----------------------------------------------------------------------------
(* cleanroot *)

cleanroot(root) ==
    IF ~EndsWithSlash(root) THEN Trim(root)
    ELSE Reverse(DropWhileSlash(Reverse(Trim(root))))

----------------------------------------------------------------------------
(* Path Normalizer: buildResources *)

\* the segment array of one endpoint; a configured endpoint keeps its record
SegmentsOf(resource) ==
    IF ~resource.isObj THEN compact(Split(resource.resource))
    ELSE Split(resource.resource)

\* the copies with the version pushed behind the path instead of before it
RECURSIVE VersionCopiesBehind(_, _)
VersionCopiesBehind(clean, commonVersions) ==
    IF commonVersions = <<>> THEN <<>>
    ELSE <<(clean \o <<Head(commonVersions)>>)>>
             \o VersionCopiesBehind(clean, Tail(commonVersions))

RECURSIVE VersionCopies(_, _)
VersionCopies(clean, commonVersions) ==
    IF commonVersions = <<>> THEN <<>>
    ELSE <<(<<Head(commonVersions)>> \o clean)>>
             \o VersionCopies(clean, Tail(commonVersions))

RECURSIVE SimpleResources(_, _)
SimpleResources(endpoints, commonVersions) ==
    IF endpoints = <<>> THEN <<>>
    ELSE LET resource == Head(endpoints)
             clean == SegmentsOf(resource)
         IN  (IF resource.isObj THEN <<>>
              ELSE <<clean>> \o VersionCopies(clean, commonVersions))
             \o SimpleResources(Tail(endpoints), commonVersions)

\* the identity map of versions: iden[k] = v, keyed by the index k
RECURSIVE VersionMap(_, _)
VersionMap(endpoints, versions) ==
    IF endpoints = <<>> THEN versions
    ELSE LET resource == Head(endpoints)
             vs == ConcatToList(resource.versions)
             next == IF resource.isObj /\ Truthy(resource.versions)
                     THEN Assign(versions, [k \in 0 .. Len(vs) - 1 |-> vs[k + 1]])
                     ELSE versions
         IN  VersionMap(Tail(endpoints), next)

buildResources(endpoints, commonVersions) ==
    [simpleResources |-> SimpleResources(endpoints, commonVersions),
     eps |-> [i \in 1 .. Len(endpoints) |-> SegmentsOf(endpoints[i])],
     versions |-> VersionMap(endpoints, EmptyMap)]

----------------------------------------------------------------------------
(* Tree Merger: place and normalize.  A map is a sequence of entries       *)
(* [name, leaf, kids] in key insertion order: leaf = TRUE is the value 1,  *)
(* otherwise kids is the nested map.                                       *)

IndexOf(map, name) ==
    IF \E i \in 1 .. Len(map) : map[i].name = name
    THEN CHOOSE i \in 1 .. Len(map) : map[i].name = name
    ELSE 0

\* map[name] = e: replaces the value in place or appends a new key
SetEntry(map, e) ==
    LET i == IndexOf(map, e.name)
    IN  IF i = 0 THEN Append(map, e) ELSE [map EXCEPT ![i] = e]

\* const [head, ...rest] = paths: the head of an empty array is undefined,
\* which as a property key is 'undefined'
HeadKey(paths) == IF paths = <<>> THEN "undefined" ELSE Head(paths)
Rest(paths) == IF paths = <<>> THEN <<>> ELSE Tail(paths)

\* place without the test of the node found: a new map for every longer path
RECURSIVE placeNoMerge(_, _)
placeNoMerge(map, paths) ==
    LET head == HeadKey(paths)
        rest == Rest(paths)
        i == IndexOf(map, head)
    IN  IF rest # <<>>
        THEN SetEntry(map, [name |-> head, leaf |-> FALSE,
                            kids |-> placeNoMerge(<<>>, rest)])
        ELSE IF i = 0
             THEN SetEntry(map, [name |-> head, leaf |-> TRUE, kids |-> <<>>])
             ELSE map

\* place without the test before map[head] = 1
RECURSIVE placeDemote(_, _)
placeDemote(map, paths) ==
    LET head == HeadKey(paths)
        rest == Rest(paths)
        i == IndexOf(map, head)
    IN  IF rest # <<>>
        THEN LET node == IF i = 0 \/ map[i].leaf THEN <<>> ELSE map[i].kids
             IN  SetEntry(map, [name |-> head, leaf |-> FALSE,
                                kids |-> placeDemote(node, rest)])
        ELSE SetEntry(map, [name |-> head, leaf |-> TRUE, kids |-> <<>>])

\* the keys every object literal {} inherits from Object.prototype: map[head]
\* finds a function (for __proto__ an object) under them although the map has
\* no such key of its own
InheritedKeys ==
    {"constructor", "hasOwnProperty", "isPrototypeOf", "propertyIsEnumerable",
     "toLocaleString", "toString", "valueOf", "__proto__", "__defineGetter__",
     "__defineSetter__", "__lookupGetter__", "__lookupSetter__"}

\* for an inherited key that is not an own key, node is truthy and is not 1:
\* a longer path is placed into the inherited value and a path that ends
\* here places nothing, so the map stays as it is
RECURSIVE place(_, _)
place(map, paths) ==
    LET head == HeadKey(paths)
        rest == Rest(paths)
        i == IndexOf(map, head)
    IN  IF i = 0 /\ head \in InheritedKeys THEN map
        ELSE IF rest # <<>>
        THEN LET node == IF i = 0 \/ map[i].leaf THEN <<>> ELSE map[i].kids
             IN  SetEntry(map, [name |-> head, leaf |-> FALSE,
                                kids |-> place(node, rest)])
        ELSE IF i = 0
             THEN SetEntry(map, [name |-> head, leaf |-> TRUE, kids |-> <<>>])
             ELSE map

RECURSIVE PlaceAll(_, _)
PlaceAll(out, ls) ==
    IF ls = <<>> THEN out ELSE PlaceAll(place(out, Head(ls)), Tail(ls))

normalize(ls) == IF ls = <<>> THEN <<>> ELSE PlaceAll(<<>>, ls)

\* Array.prototype.sort with (ls, xs) => -(ls.length - xs.length): a stable
\* sort, longest first
RECURSIVE InsertByLength(_, _)
InsertByLength(sorted, x) ==
    IF sorted = <<>> THEN <<x>>
    ELSE IF Len(Head(sorted)) < Len(x) THEN <<x>> \o sorted
    ELSE <<Head(sorted)>> \o InsertByLength(Tail(sorted), x)

RECURSIVE SortByLength(_)
SortByLength(all) ==
    IF all = <<>> THEN <<>>
    ELSE InsertByLength(SortByLength(SubSeq(all, 1, Len(all) - 1)), all[Len(all)])

----------------------------------------------------------------------------
(* Verb Binder: proto.  A property value is [k, ref, op]: a reference to   *)
(* an object of the heap (k = "obj"), a verb method made by proto          *)
(* (k = "verb", op the operation it carries out) or the _route closure     *)
(* made together with object ref (k = "route").                            *)

ObjVal(r) == [k |-> "obj", ref |-> r, op |-> ""]
VerbVal(o) == [k |-> "verb", ref |-> 0, op |-> o]
RouteVal(r) == [k |-> "route", ref |-> r, op |-> ""]

\* the keys of proto without the aliases
AliasIgnored(altMethodNames, verb, dflt) == dflt

\* alias || 'name'
Alias(altMethodNames, verb, dflt) ==
    IF verb \in DOMAIN altMethodNames /\ altMethodNames[verb] # ""
    THEN altMethodNames[verb] ELSE dflt

\* the keys of the object literal of proto, in source order
protoKeys(altMethodNames) ==
    << <<Alias(altMethodNames, "create", "create"), "create">>,
       <<Alias(altMethodNames, "patch", "patch"), "patch">>,
       <<Alias(altMethodNames, "del", "del"), "del">>,
       <<Alias(altMethodNames, "del", "delete"), "delete">>,
       <<Alias(altMethodNames, "get", "get"), "get">>,
       <<Alias(altMethodNames, "list", "list"), "list">>,
       <<Alias(altMethodNames, "update", "update"), "update">>,
       <<"getUrl", "getUrl">> >>

\* an object literal: a key given twice keeps the later value
RECURSIVE Literal(_)
Literal(entries) ==
    IF entries = <<>> THEN [x \in {} |-> VerbVal("")]
    ELSE LET last == entries[Len(entries)]
         IN  Assign(Literal(SubSeq(entries, 1, Len(entries) - 1)),
                    (last[1] :> VerbVal(last[2])))

proto(resource, opts) == Literal(protoKeys(opts.altMethodNames))

----------------------------------------------------------------------------
(* Hierarchy Compiler: build.  An object of the heap is                    *)
(* [kind, name, id, accum, self, v, props]: kind "root" is the default     *)
(* accum function () {}, "fn" a resource function, "inst" the object a     *)
(* resource function returns; name, id, accum, self and v are the          *)
(* variables its closures captured; props are its own properties.          *)

LeafV == [leaf |-> TRUE, kids |-> <<>>]

\* the accumulator given the verb methods, as a resource function is
RootObjWithVerbs ==
    [kind |-> "root", name |-> "", id |-> "", accum |-> 0, self |-> 0,
     v |-> LeafV, props |-> Literal(protoKeys(EmptyMap))]

RootObj ==
    [kind |-> "root", name |-> "", id |-> "", accum |-> 0, self |-> 0,
     v |-> LeafV, props |-> [x \in {} |-> VerbVal("")]]

\* lodash.size(resources): the number of keys of a map, 0 for the number 1
size(v) == IF v.leaf THEN 0 ELSE Len(v.kids)

\* an assignment that leaves a property the object already has as it is
SetPropKeep(h, o, key, value) ==
    [h EXCEPT ![o].props = Assign((key :> value), @)]

\* obj[key] = value
SetProp(h, o, key, value) ==
    [h EXCEPT ![o].props = Assign(@, (key :> value))]

RECURSIVE loop(_, _, _, _)
loop(h, resources, accum, conf) ==
    IF size(resources) = 0 THEN h
    ELSE LET e == Head(resources.kids)
             rest == Tail(resources.kids)
             fn == Len(h) + 1
             v == [leaf |-> e.leaf, kids |-> e.kids]
             h1 == Append(h,
                     [kind |-> "fn", name |-> e.name, id |-> "",
                      accum |-> accum, self |-> 0, v |-> v,
                      props |-> Assign(("_route" :> RouteVal(fn)),
                                       proto(e.name, conf))])
             h2 == IF ~v.leaf THEN loop(h1, v, fn, conf) ELSE h1
             h3 == SetProp(h2, accum, e.name, ObjVal(fn))
         IN  IF rest # <<>>
             THEN loop(h3, [leaf |-> FALSE, kids |-> rest], accum, conf)
             ELSE h3

\* fn(id) called as a method of object this: the heap after the call and the
\* reference it returns
invoke(h, this, fn, id, conf) ==
    IF "_out" \in DOMAIN h[this].props
    THEN [heap |-> h, ret |-> h[this].props["_out"].ref]
    ELSE LET out == Len(h) + 1
             h1 == Append(h,
                     [kind |-> "inst", name |-> h[fn].name, id |-> id,
                      accum |-> h[fn].accum, self |-> this, v |-> h[fn].v,
                      props |-> Assign(("_route" :> RouteVal(out)),
                                       proto(h[fn].name, conf))])
             h2 == SetProp(h1, this, "out", ObjVal(out))
         IN  [heap |-> loop(h2, h[fn].v, out, conf), ret |-> out]

\* obj._route(): the route accessor found on obj, or <<"TypeError">> when
\* obj has no callable _route
RECURSIVE routeOf(_, _, _)
routeOf(h, o, conf) ==
    IF "_route" \notin DOMAIN h[o].props \/ h[o].props["_route"].k # "route"
    THEN <<"TypeError">>
    ELSE LET w == h[h[o].props["_route"].ref]
             top == "_route" \notin DOMAIN h[w.accum].props
             base == IF top THEN cleanroot(conf.root)
                     ELSE IF w.kind = "fn" THEN routeOf(h, w.accum, conf)
                     ELSE routeOf(h, w.self, conf)
         IN  IF w.kind = "fn" THEN base \o <<"/", w.name>>
             ELSE base \o <<"/", w.name, "/", w.id>>

----------------------------------------------------------------------------
(* Construction: validateConfig, chooseDependencies, module.exports *)

DEFAULT_HEADERS ==
    ("Content-Type" :> "application/json") @@ ("Accept" :> "application/json")

\* validateConfig with !root as its only test of the root
InvalidConfigNoTrim(config) ==
    \/ config.root = <<>>
    \/ config.endpointsKind # "array"
    \/ config.endpoints = <<>>

\* validateConfig throws
InvalidConfig(config) ==
    \/ config.root = <<>> \/ Trim(config.root) = <<>>
    \/ config.endpointsKind # "array"
    \/ config.endpoints = <<>>

\* chooseDependencies throws
MissingRequest(config) == config.request = "none"

\* the sorted list of segment arrays handed to normalize
allResources(config) ==
    LET commonVersions == compact(ConcatToList(config.versions))
        built == buildResources(config.endpoints, commonVersions)
        all == SelectSeq(built.eps, LAMBDA ls : Len(ls) > 0)
    IN  SortByLength(all \o built.simpleResources)

\* opts with the configured headers alone, the built-in defaults left out
optsOfNoDefaults(config) ==
    [config EXCEPT !.headers = Assign(EmptyMap, config.headers)]

\* opts: the configuration with the merged headers
optsOf(config) ==
    [config EXCEPT !.headers = Assign(DEFAULT_HEADERS, config.headers)]

\* build(opts)(normalize(all)): the heap of the compiled hierarchy; object 1
\* is the function returned
compile(config) ==
    loop(<<RootObj>>,
         [leaf |-> FALSE, kids |-> normalize(allResources(config))],
         1, optsOf(config))

----------------------------------------------------------------------------
(* Values handed to verbs, to the request function and to callbacks.  An   *)
(* argument is [t, m]: undefined ("undef"), a plain object with the own    *)
(* properties m ("map"), the caller's callback ("cb") or noop ("noop").    *)

Undef == [t |-> "undef", m |-> EmptyMap]
MapArg(m) == [t |-> "map", m |-> m]
CallerCb == [t |-> "cb", m |-> EmptyMap]
noop == [t |-> "noop", m |-> EmptyMap]

\* the i-th actual argument of a call
Arg(args, i) == IF i <= Len(args) THEN args[i] ELSE Undef

\* a parameter declared cb = noop
DefaultNoop(x) == IF x.t = "undef" THEN noop ELSE x

\* the own enumerable properties Object.assign copies from a value
OwnProps(x) == IF x.t = "map" THEN x.m ELSE EmptyMap

\* mod.field || {}
ModField(mod, field) == IF field \in DOMAIN mod THEN mod[field] ELSE EmptyMap

\* what a verb returns: undefined or promise p
UndefRet == [t |-> "undef", p |-> 0]
PromiseRet(p) == [t |-> "promise", p |-> p]

\* the world a verb invocation acts on
World == [calls |-> calls, promises |-> promises, delivered |-> delivered]

NewPromise(by, follows) ==
    [state |-> "pending", val |-> "", by |-> by, follows |-> follows]

----------------------------------------------------------------------------
(* The request function, an external collaborator.  config.request says   *)
(* how it reports: "promise" (it returns a promise and ignores the        *)
(* callback), "callback" (it returns undefined and invokes the callback   *)
(* it was handed) or "both".                                               *)

request(w, i, url, method, props, qry, head, finish, conf) ==
    LET p == IF conf.request \in {"promise", "both"}
             THEN Len(w.promises) + 1 ELSE 0
        c == [inv |-> i, url |-> url, method |-> method, props |-> props,
              query |-> qry, headers |-> head, cb |-> finish, promise |-> p,
              done |-> FALSE, ok |-> FALSE]
    IN  [w |-> [w EXCEPT !.calls = Append(@, c),
                         !.promises = IF p = 0 THEN @
                                      ELSE Append(@, NewPromise("request", 0))],
         ret |-> IF p = 0 THEN UndefRet ELSE PromiseRet(p)]

\* cb(err, res) where cb is a function: only the caller's callback is observed
invokeCb(w, i, cb, err, res) ==
    IF cb.t = "cb"
    THEN [w EXCEPT !.delivered = Append(@, [inv |-> i, err |-> err, res |-> res])]
    ELSE w

----------------------------------------------------------------------------
(* Verb Binder: verbFactory.  a = [route, method, properties, query,      *)
(* headers] are the arguments proto hands to the factory, cb the sixth.   *)

processed(w, i, a, mod, finish, conf) ==
    LET head == Assign(Assign(EmptyMap, a.headers), ModField(mod, "headers"))
        props == Assign(Assign(EmptyMap, OwnProps(a.properties)),
                        ModField(mod, "properties"))
        qry == Assign(Assign(EmptyMap, OwnProps(a.query)), ModField(mod, "query"))
    IN  request(w, i, a.route, a.method, props, qry, head, finish, conf)

\* the completion callback handed to the hook
spy(w, i, a, cb, err, mod, conf) ==
    IF err THEN invokeCb(w, i, cb, "hookError", "undefined")
    ELSE processed(w, i, a, mod, cb, conf).w

\* the default request flow with the promise branch taken whenever the
\* caller gave no callback of its own
noHookFlowPromise(w, i, a, cb, conf) ==
    LET p == Len(w.promises) + 1
        made == [w EXCEPT !.promises = Append(@, NewPromise("ctor", 0))]
    IN  IF cb.t \in {"undef", "noop"}
        THEN [w |-> processed(made, i, a, EmptyMap, Undef, conf).w,
              ret |-> PromiseRet(p)]
        ELSE processed(w, i, a, EmptyMap, cb, conf)

\* the default request flow: opts.beforeEach is not defined
noHookFlow(w, i, a, cb, conf) ==
    LET p == Len(w.promises) + 1
        made == [w EXCEPT !.promises = Append(@, NewPromise("ctor", 0))]
    IN  IF cb.t = "undef"
        THEN [w |-> processed(made, i, a, EmptyMap, Undef, conf).w,
              ret |-> PromiseRet(p)]
        ELSE processed(w, i, a, EmptyMap, cb, conf)

\* the flow with a hook that makes the request before it calls the hook
hookFlowRequestFirst(w, i, a, cb, conf) ==
    LET hook == conf.beforeEach
        w0 == processed(w, i, a, EmptyMap, cb, conf).w
        w1 == IF hook.cb = "sync"
              THEN spy(w0, i, a, cb, hook.err, hook.mod, conf)
              ELSE w0
        q == Len(w1.promises) + 1
    IN  IF hook.ret = "undefined"
        THEN [w |-> w1, ret |-> UndefRet]
        ELSE [w |-> [w1 EXCEPT !.promises = Append(@, NewPromise("then", 0))],
              ret |-> PromiseRet(q)]

\* the flow with a hook: the hook is called with spy; a hook of kind "sync"
\* invokes spy before it returns
hookFlow(w, i, a, cb, conf) ==
    LET hook == conf.beforeEach
        w1 == IF hook.cb = "sync"
              THEN spy(w, i, a, cb, hook.err, hook.mod, conf)
              ELSE w
        q == Len(w1.promises) + 1
    IN  IF hook.ret = "undefined"
        THEN [w |-> w1, ret |-> UndefRet]
        ELSE [w |-> [w1 EXCEPT !.promises = Append(@, NewPromise("then", 0))],
              ret |-> PromiseRet(q)]

\* the synchronous part of the function verbFactory returns: the world after
\* it and the value it returns
verbFactory(w, i, a, cb, conf) ==
    IF ~conf.beforeEach.on THEN noHookFlow(w, i, a, cb, conf)
    ELSE hookFlow(w, i, a, cb, conf)

\* resource.props && resource.props.createMethod || 'post': resource is the
\* name string of the node, which has no props
createMethod(resource) == "post"

\* proto with get and list handing their query over as the properties too
protoCallQueryAsBody(op, resource, route, args, opts) ==
    LET empty == MapArg(EmptyMap)
        mk(method, properties, query, cb) ==
            [a |-> [route |-> route, method |-> method,
                    properties |-> properties, query |-> query,
                    headers |-> opts.headers],
             cb |-> DefaultNoop(cb)]
    IN  CASE op = "create" -> mk(createMethod(resource), Arg(args, 1), empty, Arg(args, 2))
          [] op = "patch"  -> mk("patch", Arg(args, 1), empty, Arg(args, 2))
          [] op = "del"    -> mk("delete", empty, empty, Arg(args, 1))
          [] op = "delete" -> mk("delete", empty, empty, Arg(args, 1))
          [] op = "get"    -> mk("get", Arg(args, 1), Arg(args, 1), Arg(args, 2))
          [] op = "list"   -> mk("get", Arg(args, 1), Arg(args, 1), Arg(args, 2))
          [] op = "update" -> mk("put", Arg(args, 1), empty, Arg(args, 2))

\* the arguments a method of proto hands to the factory
protoCall(op, resource, route, args, opts) ==
    LET empty == MapArg(EmptyMap)
        mk(method, properties, query, cb) ==
            [a |-> [route |-> route, method |-> method,
                    properties |-> properties, query |-> query,
                    headers |-> opts.headers],
             cb |-> DefaultNoop(cb)]
    IN  CASE op = "create" -> mk(createMethod(resource), Arg(args, 1), empty, Arg(args, 2))
          [] op = "patch"  -> mk("patch", Arg(args, 1), empty, Arg(args, 2))
          [] op = "del"    -> mk("delete", empty, empty, Arg(args, 1))
          [] op = "delete" -> mk("delete", empty, empty, Arg(args, 1))
          [] op = "get"    -> mk("get", empty, Arg(args, 1), Arg(args, 2))
          [] op = "list"   -> mk("get", empty, Arg(args, 1), Arg(args, 2))
          [] op = "update" -> mk("put", Arg(args, 1), empty, Arg(args, 2))

----------------------------------------------------------------------------
(* The caller.  A caller variable holds an object reached by a navigation  *)
(* chain: a sequence of steps [seg, called, id], one per property access,  *)
(* with called = TRUE when the property was invoked, with identifier id    *)
(* ("undefined" when it was invoked with no argument).                     *)

CallerVars == {"a"}

Ops == {"create", "patch", "del", "delete", "get", "list", "update"}

\* the property name under which the caller looks an operation up
NameOf(altMethodNames, want) ==
    Alias(altMethodNames, IF want = "delete" THEN "del" ELSE want, want)

RECURSIVE Prefixes(_)
Prefixes(path) ==
    IF path = <<>> THEN {}
    ELSE {path} \cup Prefixes(SubSeq(path, 1, Len(path) - 1))

\* the paths the configuration declares, with their prefixes
DeclaredPaths(config) ==
    LET all == allResources(config)
    IN  UNION {Prefixes(all[i]) : i \in 1 .. Len(all)}

SegsOf(ch) == [i \in 1 .. Len(ch) |-> ch[i].seg]

NavCount == Cardinality({o \in 1 .. Len(heap) : heap[o].kind = "inst"})

----------------------------------------------------------------------------
(* Actions *)

\* quickrest(config)
Construct ==
    /\ phase = "new"
    /\ IF InvalidConfig(cfg) \/ MissingRequest(cfg)
       THEN /\ phase' = "threw"
            /\ UNCHANGED <<heap, api>>
       ELSE /\ phase' = "ready"
            /\ heap' = compile(cfg)
            /\ api' = 1
    /\ UNCHANGED <<cfg, cur, chain, invs, calls, promises, delivered>>

\* c = api: the caller begins a new chain, and the observation of the
\* invocation made at the end of the chain before it ends
Start(c) ==
    /\ phase = "ready"
    /\ cur' = [cur EXCEPT ![c] = api]
    /\ chain' = [chain EXCEPT ![c] = <<>>]
    /\ invs' = <<>>
    /\ calls' = <<>>
    /\ promises' = <<>>
    /\ delivered' = <<>>
    /\ UNCHANGED <<cfg, phase, heap, api>>

\* c = c.seg, for a declared resource seg
Access(c, seg) ==
    /\ cur[c] # 0
    /\ invs = <<>>
    /\ Append(SegsOf(chain[c]), seg) \in DeclaredPaths(cfg)
    /\ seg \in DOMAIN heap[cur[c]].props
    /\ heap[cur[c]].props[seg].k = "obj"
    /\ cur' = [cur EXCEPT ![c] = heap[cur[c]].props[seg].ref]
    /\ chain' = [chain EXCEPT ![c] = Append(@, [seg |-> seg, called |-> FALSE, id |-> ""])]
    /\ UNCHANGED <<cfg, phase, heap, api, invs, calls, promises, delivered>>

\* c = c.seg(id), for a declared resource seg
Call(c, seg, id) ==
    /\ cur[c] # 0
    /\ invs = <<>>
    /\ NavCount < MaxNav
    /\ Append(SegsOf(chain[c]), seg) \in DeclaredPaths(cfg)
    /\ seg \in DOMAIN heap[cur[c]].props
    /\ heap[cur[c]].props[seg].k = "obj"
    /\ heap[heap[cur[c]].props[seg].ref].kind = "fn"
    /\ LET r == invoke(heap, cur[c], heap[cur[c]].props[seg].ref, id, optsOf(cfg))
       IN  /\ heap' = r.heap
           /\ cur' = [cur EXCEPT ![c] = r.ret]
    /\ chain' = [chain EXCEPT ![c] = Append(@, [seg |-> seg, called |-> TRUE, id |-> id])]
    /\ UNCHANGED <<cfg, phase, api, invs, calls, promises, delivered>>

\* c.<name of want>(args...), at the end of a chain
VerbCall(c, want, args) ==
    /\ cur[c] # 0
    /\ invs = <<>>
    /\ LET this == cur[c]
           opts == optsOf(cfg)
           name == NameOf(cfg.altMethodNames, want)
       IN  /\ name \in DOMAIN heap[this].props
           /\ heap[this].props[name].k = "verb"
           /\ heap[this].props[name].op \in Ops
           /\ LET op == heap[this].props[name].op
                  i == 1
                  pc == protoCall(op, heap[this].name, routeOf(heap, this, opts),
                                  args, opts)
                  r == verbFactory(World, i, pc.a, pc.cb, opts)
              IN  /\ invs' = Append(invs,
                          [var |-> c, this |-> this, chain |-> chain[c], want |-> want,
                           name |-> name, op |-> op, args |-> args,
                           a |-> pc.a, cb |-> pc.cb, ret |-> r.ret,
                           hookCalls |-> IF opts.beforeEach.on THEN 1 ELSE 0,
                           spyPending |-> opts.beforeEach.on
                                          /\ opts.beforeEach.cb = "async",
                           thenPending |-> opts.beforeEach.on
                                           /\ opts.beforeEach.ret # "undefined"])
                  /\ calls' = r.w.calls
                  /\ promises' = r.w.promises
                  /\ delivered' = r.w.delivered
    /\ UNCHANGED <<cfg, phase, heap, api, cur, chain>>

\* the hook invokes its completion callback after it returned
HookCallback(i) ==
    /\ invs[i].spyPending
    /\ LET hook == cfg.beforeEach
           w == spy(World, i, invs[i].a, invs[i].cb, hook.err, hook.mod, optsOf(cfg))
       IN  /\ calls' = w.calls
           /\ promises' = w.promises
           /\ delivered' = w.delivered
    /\ invs' = [invs EXCEPT ![i].spyPending = FALSE]
    /\ UNCHANGED <<cfg, phase, heap, api, cur, chain>>

\* the reaction of opts.promise.resolve(out).then(processed) runs: processed is
\* called with out, unless out is a promise that rejected
HookThen(i) ==
    /\ invs[i].thenPending
    /\ LET r == processed(World, i, invs[i].a, cfg.beforeEach.mod, Undef, optsOf(cfg))
           p == invs[i].ret.p
       IN  IF cfg.beforeEach.ret = "rejected"
           THEN /\ promises' = [promises EXCEPT ![p].state = "rejected",
                                                ![p].val = "hookError"]
                /\ UNCHANGED <<calls, delivered>>
           ELSE /\ calls' = r.w.calls
                /\ promises' =
                      IF r.ret.t = "promise"
                      THEN [r.w.promises EXCEPT ![p].follows = r.ret.p]
                      ELSE [r.w.promises EXCEPT ![p].state = "fulfilled",
                                                ![p].val = "undefined"]
                /\ delivered' = r.w.delivered
    /\ invs' = [invs EXCEPT ![i].thenPending = FALSE]
    /\ UNCHANGED <<cfg, phase, heap, api, cur, chain>>

\* a promise and the promises that follow it settle
Settle(ps, p, state, val) ==
    [q \in 1 .. Len(ps) |->
        IF q = p \/ ps[q].follows = p
        THEN [ps[q] EXCEPT !.state = state, !.val = val]
        ELSE ps[q]]

\* the transport of request call k ends: the request function reports
Respond(k, ok) ==
    /\ ~calls[k].done
    /\ calls' = [calls EXCEPT ![k].done = TRUE, ![k].ok = ok]
    /\ delivered' =
          IF cfg.request \in {"callback", "both"}
          THEN invokeCb(World, calls[k].inv, calls[k].cb,
                        IF ok THEN "null" ELSE "transportError",
                        IF ok THEN "result" ELSE "undefined").delivered
          ELSE delivered
    /\ promises' =
          IF calls[k].promise # 0
          THEN Settle(promises, calls[k].promise,
                      IF ok THEN "fulfilled" ELSE "rejected",
                      IF ok THEN "result" ELSE "transportError")
          ELSE promises
    /\ UNCHANGED <<cfg, phase, heap, api, cur, chain, invs>>

----------------------------------------------------------------------------
(* Inputs *)

\* the declaration string of a path: its segments joined by "/"
RECURSIVE Join(_)
Join(path) ==
    IF Len(path) <= 1 THEN path
    ELSE <<Head(path), "/">> \o Join(Tail(path))

\* a string endpoint and a configured endpoint
Str(tokens) ==
    [isObj |-> FALSE, resource |-> tokens, versions |-> NoValue, createMethod |-> ""]
Obj(tokens, versions, method) ==
    [isObj |-> TRUE, resource |-> tokens, versions |-> versions, createMethod |-> method]

EmptyMod == [headers |-> EmptyMap, properties |-> EmptyMap, query |-> EmptyMap]
NoHook == [on |-> FALSE, ret |-> "undefined", cb |-> "never", err |-> FALSE, mod |-> EmptyMod]

\* identifiers handed to resource functions
Ids == {"9000", "3"}
NavIds == {"9000"}

P1 == ("title" :> "t") @@ ("body" :> "b")
Q1 == ("page" :> "1") @@ ("rpp" :> "50")

ArgForms(want) ==
    IF want \in {"create", "patch", "update"}
    THEN {<<MapArg(P1)>>, <<MapArg(P1), CallerCb>>}
    ELSE IF want \in {"get", "list"}
    THEN {<<>>, <<MapArg(Q1)>>, <<CallerCb>>, <<MapArg(Q1), CallerCb>>}
    ELSE {<<>>, <<CallerCb>>}

Segments == {"users", "posts", "out"}

\* the declared paths: the non-empty sub-paths of users/posts/out
Paths ==
    {<<"users">>, <<"posts">>, <<"out">>, <<"users", "posts">>, <<"users", "out">>,
     <<"posts", "out">>, <<"users", "posts", "out">>}

RECURSIVE ListsUpTo(_, _)
ListsUpTo(S, n) ==
    IF n = 0 THEN {<<>>}
    ELSE LET shorter == ListsUpTo(S, n - 1)
         IN  shorter \cup {Append(l, x) : l \in shorter, x \in S}

\* the lists of 1..MaxEndpoints string endpoints
EndpointLists ==
    {l \in ListsUpTo({Str(Join(p)) : p \in Paths}, MaxEndpoints) : l # <<>>}

BaseConfig ==
    [root |-> <<"r">>, endpointsKind |-> "array",
     endpoints |-> <<Str(<<"users">>)>>,
     versions |-> NoValue, altMethodNames |-> EmptyMap, headers |-> EmptyMap,
     beforeEach |-> NoHook, request |-> "both"]

BuildConfigs == {[BaseConfig EXCEPT !.endpoints = l] : l \in EndpointLists}

\* the modification a hook produces
HookMod ==
    [headers |-> ("Accept" :> "text/plain") @@ ("X-Token" :> "s"),
     properties |-> ("title" :> "T"),
     query |-> ("page" :> "2")]

\* the hooks: what the hook returns (undefined, the modification or a promise
\* that rejects), when it invokes the completion callback (never, before it
\* returns or later) and whether it reports an error through it
HookKinds ==
    {h \in [on : {TRUE}, ret : {"undefined", "mod", "rejected"},
            cb : {"never", "sync", "async"}, err : BOOLEAN, mod : {HookMod}] :
        h.cb = "never" => ~h.err}

\* every hook with every kind of request function, on one resource
VerbConfigs ==
    {[BaseConfig EXCEPT !.beforeEach = h, !.request = r] :
        h \in {NoHook} \cup HookKinds, r \in {"promise", "callback", "both"}}
    \cup {[BaseConfig EXCEPT !.request = "none"]}

\* roots with trailing separators, over trees with nested resources and with
\* sibling resources
RouteConfigs ==
    {[BaseConfig EXCEPT !.root = r, !.endpoints = l] :
        r \in {<<"r">>, <<"r", "/">>, <<"r", "/", "/">>},
        l \in {<<Str(<<"users">>), Str(<<"users", "/", "posts">>)>>,
               <<Str(<<"users", "/", "posts", "/", "out">>)>>,
               <<Str(<<"users">>), Str(<<"out">>)>>}}

----------------------------------------------------------------------------
(* Specifications *)

InitWith(configs) ==
    /\ cfg \in configs
    /\ phase = "new"
    /\ heap = <<>>
    /\ api = 0
    /\ cur = [c \in CallerVars |-> 0]
    /\ chain = [c \in CallerVars |-> <<>>]
    /\ invs = <<>>
    /\ calls = <<>>
    /\ promises = <<>>
    /\ delivered = <<>>

\* verbs, hooks and the request function
Init == InitWith(VerbConfigs)

Next ==
    \/ Construct
    \/ \E c \in CallerVars : Start(c)
    \/ \E c \in CallerVars, seg \in Segments : Access(c, seg)
    \/ \E c \in CallerVars, seg \in Segments, id \in NavIds : Call(c, seg, id)
    \/ \E c \in CallerVars, want \in Ops : \E args \in ArgForms(want) : VerbCall(c, want, args)
    \/ \E i \in 1 .. Len(invs) : HookCallback(i)
    \/ \E i \in 1 .. Len(invs) : HookThen(i)
    \/ \E k \in 1 .. Len(calls), ok \in BOOLEAN : Respond(k, ok)

Spec == Init /\ [][Next]_vars

\* construction and navigation alone, over every list of string endpoints
InitBuild == InitWith(BuildConfigs)

NextBuild ==
    \/ Construct
    \/ \E c \in CallerVars : Start(c)
    \/ \E c \in CallerVars, seg \in Segments : Access(c, seg)
    \/ \E c \in CallerVars, seg \in Segments, id \in NavIds : Call(c, seg, id)

SpecBuild == InitBuild /\ [][NextBuild]_vars

\* navigation chains with several identifiers, each probed with a verb
InitRoute == InitWith(RouteConfigs)

NextRoute ==
    \/ Construct
    \/ \E c \in CallerVars : Start(c)
    \/ \E c \in CallerVars, seg \in Segments : Access(c, seg)
    \/ \E c \in CallerVars, seg \in Segments, id \in Ids : Call(c, seg, id)
    \/ \E c \in CallerVars, want \in {"create", "get"} : VerbCall(c, want, <<>>)
    \/ \E k \in 1 .. Len(calls), ok \in BOOLEAN : Respond(k, ok)

SpecRoute == InitRoute /\ [][NextRoute]_vars

----------------------------------------------------------------------------
(* Properties.  What the documentation promises is stated from the         *)
(* configuration and from what the caller did, not from the compiled       *)
(* tree.                                                                   *)

\* the segment names of a string declaration
DeclPath(e) == SelectSeq(e.resource, LAMBDA t : t # "/")

\* the path prefixes the endpoint list declares
DeclaredPrefixes ==
    UNION {Prefixes(DeclPath(cfg.endpoints[i])) : i \in 1 .. Len(cfg.endpoints)}

\* the names declared directly below a path
ChildNames(path) ==
    {q[Len(q)] : q \in {r \in DeclaredPrefixes :
                            /\ Len(r) = Len(path) + 1
                            /\ SubSeq(r, 1, Len(path)) = path}}

\* the object reached from object o by the property names of path, 0 if none
RECURSIVE NodeAt(_, _)
NodeAt(o, path) ==
    IF path = <<>> THEN o
    ELSE IF \/ o = 0
            \/ Head(path) \notin DOMAIN heap[o].props
            \/ heap[o].props[Head(path)].k # "obj"
         THEN 0
         ELSE NodeAt(heap[o].props[Head(path)].ref, Tail(path))

\* object o has a resource function for every name declared below path, and
\* no other child
ExposesChildren(o, path) ==
    /\ {n \in DOMAIN heap[o].props : heap[o].props[n].k = "obj"} = ChildNames(path)
    /\ \A n \in ChildNames(path) :
          LET f == heap[heap[o].props[n].ref]
          IN  f.kind = "fn" /\ f.name = n /\ f.accum = o

\* object o has every verb method that no declared child of path replaces
ExposesVerbs(o, path) ==
    \A op \in Ops :
        LET n == NameOf(cfg.altMethodNames, op)
        IN  \/ n \in ChildNames(path)
            \/ n \in DOMAIN heap[o].props /\ heap[o].props[n] = VerbVal(op)

\* the chain of caller variable c ends with an invocation resource(id)
EndsCalled(c) == chain[c] # <<>> /\ chain[c][Len(chain[c])].called

RECURSIVE StripTrailing(_)
StripTrailing(s) ==
    IF s # <<>> /\ s[Len(s)] = "/" THEN StripTrailing(SubSeq(s, 1, Len(s) - 1))
    ELSE s

\* '/' + segment, and '/' + identifier for an invoked step, for every step
RECURSIVE ChainUrl(_)
ChainUrl(ch) ==
    IF ch = <<>> THEN <<>>
    ELSE <<"/", Head(ch).seg>>
         \o (IF Head(ch).called THEN <<"/", Head(ch).id>> ELSE <<>>)
         \o ChainUrl(Tail(ch))

\* the calls of the request function made for invocation i
CallsOf(i) == {k \in 1 .. Len(calls) : calls[k].inv = i}
DeliveriesOf(i) == {d \in 1 .. Len(delivered) : delivered[d].inv = i}

\* the caller handed its callback to the verb
GaveCallback(i) == \E j \in 1 .. Len(invs[i].args) : invs[i].args[j] = CallerCb

\* C1: for every navigation chain from the client root, the URL handed to
\* the request function is the root without trailing '/' followed, for each
\* step in order, by '/' + segment and, for a step invoked with an
\* identifier, '/' + identifier.
C1_UrlFollowsChain ==
    \A k \in 1 .. Len(calls) :
        calls[k].url = StripTrailing(cfg.root) \o ChainUrl(invs[calls[k].inv].chain)

\* C2: for every list of string endpoints, the compiled hierarchy has exactly
\* one node per declared path prefix, and the callable of a prefix and every
\* instance it returns expose every child declared under it by any endpoint.
C2_OneNodePerPrefix ==
    phase = "ready" =>
        /\ NavCount = 0 =>
              /\ \A path \in DeclaredPrefixes \cup {<<>>} :
                    /\ NodeAt(api, path) # 0
                    /\ ExposesChildren(NodeAt(api, path), path)
              /\ Len(heap) = 1 + Cardinality(DeclaredPrefixes)
        /\ \A c \in CallerVars :
              EndsCalled(c) =>
                  /\ heap[cur[c]].kind = "inst"
                  /\ ExposesChildren(cur[c], SegsOf(chain[c]))

\* an instance of a prefix shared by two endpoints exposes both children
C2_Witness ==
    /\ phase = "ready"
    /\ \E c \in CallerVars :
          /\ EndsCalled(c)
          /\ Cardinality(ChildNames(SegsOf(chain[c]))) = 2
          /\ {"posts", "out"} \subseteq DOMAIN heap[cur[c]].props

\* a path declared alone and as the proper prefix of a longer path
AloneAndPrefix(path) ==
    /\ \E i \in 1 .. Len(cfg.endpoints) : DeclPath(cfg.endpoints[i]) = path
    /\ ChildNames(path) # {}

InternalNode(o, path) ==
    /\ ~heap[o].v.leaf
    /\ ExposesVerbs(o, path)
    /\ ExposesChildren(o, path)

\* C3: when a path is declared both alone and as the proper prefix of a
\* longer path, in either order, its compiled node is an internal node that
\* exposes its own verb methods and the child node.
C3_AloneAndPrefixIsInternal ==
    phase = "ready" =>
        \A path \in DeclaredPrefixes :
            AloneAndPrefix(path) =>
                /\ NavCount = 0 =>
                      /\ NodeAt(api, path) # 0
                      /\ InternalNode(NodeAt(api, path), path)
                /\ \A c \in CallerVars :
                      EndsCalled(c) /\ SegsOf(chain[c]) = path =>
                          InternalNode(cur[c], path)

\* users is declared before users/posts, and an instance of users has its
\* verbs and the child posts
C3_Witness ==
    /\ phase = "ready"
    /\ cfg.endpoints = <<Str(<<"users">>), Str(<<"users", "/", "posts">>)>>
    /\ \E c \in CallerVars :
          /\ EndsCalled(c)
          /\ SegsOf(chain[c]) = <<"users">>
          /\ heap[cur[c]].props["create"] = VerbVal("create")
          /\ "posts" \in DOMAIN heap[cur[c]].props

\* the verb table of the documentation
TableMethod(want) ==
    CASE want = "create" -> "post"
      [] want = "update" -> "put"
      [] want = "patch" -> "patch"
      [] want \in {"get", "list"} -> "get"
      [] want \in {"del", "delete"} -> "delete"

\* the plain object the caller gave as the first argument, if any
GivenMap(i) ==
    IF Len(invs[i].args) >= 1 /\ invs[i].args[1].t = "map"
    THEN invs[i].args[1].m ELSE EmptyMap

\* the body and the query the caller asked for
GivenProps(i) ==
    IF invs[i].want \in {"create", "update", "patch"} THEN GivenMap(i) ELSE EmptyMap
GivenQuery(i) ==
    IF invs[i].want \in {"get", "list"} THEN GivenMap(i) ELSE EmptyMap

\* C4: with no beforeEach hook, each verb invocation calls the request
\* function exactly once, with the route of the node and the method, body and
\* query of the verb table.
C4_OneRequestPerVerb ==
    \A i \in 1 .. Len(invs) :
        ~cfg.beforeEach.on =>
            /\ Cardinality(CallsOf(i)) = 1
            /\ \A k \in CallsOf(i) :
                  /\ calls[k].url = routeOf(heap, invs[i].this, optsOf(cfg))
                  /\ calls[k].method = TableMethod(invs[i].want)
                  /\ calls[k].props = GivenProps(i)
                  /\ calls[k].query = GivenQuery(i)

\* list(query) on an instance called the request function with 'get', an
\* empty body and the query
C4_Witness ==
    \E i \in 1 .. Len(invs) :
        /\ ~cfg.beforeEach.on
        /\ invs[i].want = "list"
        /\ invs[i].args = <<MapArg(Q1)>>
        /\ heap[invs[i].this].kind = "inst"
        /\ \E k \in CallsOf(i) :
              calls[k].method = "get" /\ calls[k].query = Q1 /\ calls[k].props = EmptyMap

\* C5: with no beforeEach hook, the callback the caller gave last (also in
\* get(cb) and del(cb)) is handed to the request function and invoked exactly
\* once with the outcome of the request function.
C5_CallbackReachesRequest ==
    \A i \in 1 .. Len(invs) :
        ~cfg.beforeEach.on /\ GaveCallback(i) =>
            \A k \in CallsOf(i) :
                /\ calls[k].cb = CallerCb
                /\ calls[k].done /\ cfg.request \in {"callback", "both"} =>
                      Cardinality(DeliveriesOf(i)) = 1

\* C6: with no beforeEach hook, a verb invoked without a callback returns an
\* object made by the configured promise constructor, whatever the request
\* function returns.
C6_PromiseWithoutCallback ==
    \A i \in 1 .. Len(invs) :
        ~cfg.beforeEach.on /\ ~GaveCallback(i) =>
            /\ invs[i].ret.t = "promise"
            /\ promises[invs[i].ret.p].by = "ctor"

\* C7: with no beforeEach hook and a request function that returns a promise,
\* what a verb returns when called without a callback settles as the promise
\* of the request function does: fulfilled with its result, rejected with its
\* error, pending until then.
C7_SettlesLikeRequest ==
    \A i \in 1 .. Len(invs) :
        /\ ~cfg.beforeEach.on
        /\ cfg.request \in {"promise", "both"}
        /\ ~GaveCallback(i)
        => /\ invs[i].ret.t = "promise"
           /\ \A k \in CallsOf(i) :
                 LET pr == promises[invs[i].ret.p]
                 IN  /\ ~calls[k].done => pr.state = "pending"
                     /\ calls[k].done /\ calls[k].ok =>
                           pr.state = "fulfilled" /\ pr.val = "result"
                     /\ calls[k].done /\ ~calls[k].ok =>
                           pr.state = "rejected" /\ pr.val = "transportError"

\* the transport of a verb called without a callback failed, and what the
\* verb returned is rejected
C7_Witness ==
    \E i \in 1 .. Len(invs) :
        /\ ~cfg.beforeEach.on
        /\ cfg.request = "promise"
        /\ ~GaveCallback(i)
        /\ invs[i].ret.t = "promise"
        /\ promises[invs[i].ret.p].state = "rejected"
        /\ \E k \in CallsOf(i) : calls[k].done /\ ~calls[k].ok

\* the hook of invocation i has invoked its completion callback with an error
HookCallbackErrored(i) ==
    /\ cfg.beforeEach.on
    /\ cfg.beforeEach.cb # "never"
    /\ cfg.beforeEach.err
    /\ ~invs[i].spyPending

\* C8: when the hook invokes its completion callback with an error, the
\* request function is never called for the invocation and the callback of
\* the caller is invoked exactly once, with that error.
C8_HookErrorSkipsRequest ==
    \A i \in 1 .. Len(invs) :
        HookCallbackErrored(i) /\ cfg.beforeEach.ret = "undefined" =>
            /\ CallsOf(i) = {}
            /\ GaveCallback(i) =>
                  /\ Cardinality(DeliveriesOf(i)) = 1
                  /\ \A d \in DeliveriesOf(i) : delivered[d].err = "hookError"

\* C9: when the hook signals an error and the caller gave no callback, the
\* verb returns a promise, and the promise rejects with the error of the hook.
C9_HookErrorRejects ==
    \A i \in 1 .. Len(invs) :
        /\ ~GaveCallback(i)
        /\ \/ HookCallbackErrored(i) /\ cfg.beforeEach.ret = "undefined"
           \/ /\ cfg.beforeEach.on
              /\ cfg.beforeEach.ret = "rejected"
              /\ ~invs[i].thenPending
        => /\ invs[i].ret.t = "promise"
           /\ promises[invs[i].ret.p].state = "rejected"
           /\ promises[invs[i].ret.p].val = "hookError"

\* C10: when the hook returns undefined, the verb returns undefined and no
\* request is made until the hook invokes its completion callback; when it
\* then completes with (null, modification), the request function is called
\* once, with the callback of the caller and with the headers, properties and
\* query of the invocation shallow-merged with the modification.
C10_HookUndefinedDefers ==
    \A i \in 1 .. Len(invs) :
        cfg.beforeEach.on /\ cfg.beforeEach.ret = "undefined" =>
            /\ invs[i].ret = UndefRet
            /\ cfg.beforeEach.cb = "never" \/ invs[i].spyPending => CallsOf(i) = {}
            /\ /\ cfg.beforeEach.cb # "never"
               /\ ~cfg.beforeEach.err
               /\ ~invs[i].spyPending
               => /\ Cardinality(CallsOf(i)) = 1
                  /\ \A k \in CallsOf(i) :
                        /\ GaveCallback(i) => calls[k].cb = CallerCb
                        /\ calls[k].headers =
                              Assign(Assign(DEFAULT_HEADERS, cfg.headers),
                                     cfg.beforeEach.mod.headers)
                        /\ calls[k].props =
                              Assign(GivenProps(i), cfg.beforeEach.mod.properties)
                        /\ calls[k].query =
                              Assign(GivenQuery(i), cfg.beforeEach.mod.query)

\* C11: when the hook returns a modification object, the request function is
\* called with the headers, properties and query of the invocation overlaid
\* by those of the modification, and the verb returns a promise that is
\* fulfilled with the result of the request function.
C11_HookModificationMerged ==
    \A i \in 1 .. Len(invs) :
        /\ cfg.beforeEach.on
        /\ cfg.beforeEach.ret = "mod"
        /\ cfg.beforeEach.cb = "never"
        => /\ invs[i].ret.t = "promise"
           /\ invs[i].thenPending =>
                 CallsOf(i) = {} /\ promises[invs[i].ret.p].state = "pending"
           /\ ~invs[i].thenPending =>
                 /\ Cardinality(CallsOf(i)) = 1
                 /\ \A k \in CallsOf(i) :
                       /\ calls[k].headers =
                             Assign(Assign(DEFAULT_HEADERS, cfg.headers),
                                    cfg.beforeEach.mod.headers)
                       /\ calls[k].props =
                             Assign(GivenProps(i), cfg.beforeEach.mod.properties)
                       /\ calls[k].query =
                             Assign(GivenQuery(i), cfg.beforeEach.mod.query)
                       /\ ~calls[k].done =>
                             promises[invs[i].ret.p].state = "pending"
                       /\ calls[k].done /\ calls[k].ok =>
                             /\ promises[invs[i].ret.p].state = "fulfilled"
                             /\ promises[invs[i].ret.p].val = "result"

----------------------------------------------------------------------------
(* Construction from configurations that validation accepts or rejects *)

\* roots (a missing root is the default ''), endpoints that are missing, not
\* an array, empty or given, with and without a request function
ConstructConfigs ==
    {[BaseConfig EXCEPT !.root = r, !.endpointsKind = k, !.endpoints = l,
                        !.request = q] :
        r \in {<<>>, <<" ">>, <<" ", " ">>, <<"r">>, <<" ", "r">>},
        k \in {"array", "missing", "object"},
        l \in {<<>>, <<Str(<<"users">>)>>,
               <<Str(<<"users">>), Str(<<"users", "/", "posts">>)>>},
        q \in {"none", "both"}}

InitConstruct == InitWith(ConstructConfigs)

SpecConstruct == InitConstruct /\ [][NextBuild]_vars

\* the root is missing, empty or whitespace-only
BlankRoot(root) == \A j \in 1 .. Len(root) : root[j] = " "

\* the configurations the documentation says construction refuses
Refused(config) ==
    \/ BlankRoot(config.root)
    \/ config.endpointsKind # "array"
    \/ config.endpoints = <<>>
    \/ config.request = "none"

----------------------------------------------------------------------------
(* Construction from lists with declarations of an empty path *)

EmptyPathConfigs ==
    {[BaseConfig EXCEPT !.endpoints = l] :
        l \in ListsUpTo({Str(<<>>), Str(<<"/">>), Obj(<<>>, NoValue, ""),
                         Str(<<"users">>), Str(<<"users", "/", "posts">>)},
                        MaxEndpoints) \ {<<>>}}

InitEmptyPath == InitWith(EmptyPathConfigs)

SpecEmptyPath == InitEmptyPath /\ [][NextBuild]_vars

\* the declarations of the list that name at least one segment
NamedDeclarations(endpoints) ==
    SelectSeq(endpoints, LAMBDA e : SelectSeq(DeclPath(e), LAMBDA t : t # "") # <<>>)

\* C13: a declaration with an empty path, a string that splits into no
\* segment or a record whose resource yields none, adds no property anywhere:
\* the hierarchy equals the one built from the list without it.
C13_EmptyPathAddsNothing ==
    phase = "ready" /\ NavCount = 0 =>
        heap = compile([cfg EXCEPT !.endpoints = NamedDeclarations(cfg.endpoints)])

----------------------------------------------------------------------------
(* Resources declared by configuration records *)

RecordConfigs ==
    {[BaseConfig EXCEPT !.endpoints = l] :
        l \in {<<Obj(<<"users">>, NoValue, "put")>>,
               <<Obj(<<"users">>, NoValue, "")>>,
               <<Str(<<"users">>), Obj(<<"posts">>, NoValue, "put")>>,
               <<Obj(<<"users", "/", "posts">>, NoValue, "put")>>}}

InitRecord == InitWith(RecordConfigs)

SpecRecord == InitRecord /\ [][NextRoute]_vars

\* the create method the configuration gives the resource declared at path
ConfiguredCreateMethod(path) ==
    LET recs == {j \in 1 .. Len(cfg.endpoints) :
                    /\ cfg.endpoints[j].isObj
                    /\ cfg.endpoints[j].createMethod # ""
                    /\ DeclPath(cfg.endpoints[j]) = path}
    IN  IF recs = {} THEN "post"
        ELSE cfg.endpoints[CHOOSE j \in recs : TRUE].createMethod

\* C14: create on a resource declared by a record carrying createMethod m
\* calls the request function with method m; on every other resource create
\* uses 'post'.
C14_ConfiguredCreateMethod ==
    \A k \in 1 .. Len(calls) :
        invs[calls[k].inv].want = "create" =>
            calls[k].method = ConfiguredCreateMethod(SegsOf(invs[calls[k].inv].chain))

----------------------------------------------------------------------------
(* Global version prefixes *)

VersionNames == {"v1", "v2"}

\* the identifier of a call resource(): none was given
NoId == "undefined"

VersionConfigs ==
    {[BaseConfig EXCEPT !.versions = StrValue("v2"), !.endpoints = l] :
        l \in {<<Str(<<"users">>)>>, <<Str(<<"users", "/", "posts">>)>>}}
    \cup {[BaseConfig EXCEPT !.versions = ListValue(<<"v1", "v2">>)],
           [BaseConfig EXCEPT !.endpoints = <<Str(<<"users", "/", "posts">>),
                                              Str(<<"out">>)>>]}

InitVersion == InitWith(VersionConfigs)

NextVersion ==
    \/ Construct
    \/ \E c \in CallerVars : Start(c)
    \/ \E c \in CallerVars, seg \in Segments \cup VersionNames : Access(c, seg)
    \/ \E c \in CallerVars, seg \in Segments \cup VersionNames,
          id \in NavIds \cup {NoId} : Call(c, seg, id)
    \/ \E c \in CallerVars, want \in {"create", "get"} : VerbCall(c, want, <<>>)
    \/ \E k \in 1 .. Len(calls), ok \in BOOLEAN : Respond(k, ok)

SpecVersion == InitVersion /\ [][NextVersion]_vars

\* the global version prefixes of the configuration
GlobalVersions ==
    IF cfg.versions.t = "str" THEN {cfg.versions.s} \ {""}
    ELSE {cfg.versions.l[j] : j \in 1 .. Len(cfg.versions.l)} \ {""}

\* '/' + segment for every segment of a path
RECURSIVE PathUrl(_)
PathUrl(path) ==
    IF path = <<>> THEN <<>> ELSE <<"/", Head(path)>> \o PathUrl(Tail(path))

\* the resource function at path exists and resolves to root + path
ResolvesAt(path) ==
    /\ NodeAt(api, path) # 0
    /\ heap[NodeAt(api, path)].kind = "fn"
    /\ routeOf(heap, NodeAt(api, path), optsOf(cfg))
         = StripTrailing(cfg.root) \o PathUrl(path)

\* C15: for every global version prefix v, given as a string or in a list, and
\* every string endpoint p, construction exposes the node of p and the same
\* path under v: api.v.users resolves to root/v/users, api.users to root/users.
C15_VersionedAndPlain ==
    phase = "ready" =>
        \A v \in GlobalVersions :
            \A j \in 1 .. Len(cfg.endpoints) :
                ~cfg.endpoints[j].isObj /\ DeclPath(cfg.endpoints[j]) # <<>> =>
                    /\ ResolvesAt(DeclPath(cfg.endpoints[j]))
                    /\ ResolvesAt(<<v>> \o DeclPath(cfg.endpoints[j]))

\* with versions 'v2', a verb on api.v2.users sent its request to r/v2/users
C15_Witness ==
    /\ cfg.versions = StrValue("v2")
    /\ \E k \in 1 .. Len(calls) :
          /\ SegsOf(invs[calls[k].inv].chain) = <<"v2", "users">>
          /\ \A j \in 1 .. 2 : ~invs[calls[k].inv].chain[j].called
          /\ calls[k].url = <<"r", "/", "v2", "/", "users">>

\* '/' + segment for every step, and '/' + identifier for a step invoked with
\* an identifier
RECURSIVE ChainUrlGiven(_)
ChainUrlGiven(ch) ==
    IF ch = <<>> THEN <<>>
    ELSE <<"/", Head(ch).seg>>
         \o (IF Head(ch).called /\ Head(ch).id # NoId THEN <<"/", Head(ch).id>>
             ELSE <<>>)
         \o ChainUrlGiven(Tail(ch))

\* C16: a version prefix invoked with no identifier is a plain path prefix:
\* api.v2().users(9000).get() sends its request to root/v2/users/9000, with no
\* segment between the version and the resource.
C16_VersionCallIsPrefix ==
    \A k \in 1 .. Len(calls) :
        LET ch == invs[calls[k].inv].chain
        IN  /\ ch # <<>>
            /\ ch[1].seg \in GlobalVersions
            /\ ch[1].called
            /\ ch[1].id = NoId
            /\ Len(ch) > 1
            /\ \A j \in 2 .. Len(ch) : ch[j].called => ch[j].id # NoId
            => calls[k].url = StripTrailing(cfg.root) \o ChainUrlGiven(ch)

----------------------------------------------------------------------------
(* Verbs renamed to fresh names *)

AliasConfigs ==
    {[BaseConfig EXCEPT !.altMethodNames = m,
                        !.endpoints = <<Str(<<"users">>),
                                        Str(<<"users", "/", "posts">>)>>] :
        m \in {EmptyMap,
               ("get" :> "fetch"),
               ("del" :> "remove"),
               ("create" :> "add") @@ ("list" :> "all"),
               ("update" :> "replace") @@ ("patch" :> "amend")}}

InitAlias == InitWith(AliasConfigs)

NextAlias ==
    \/ Construct
    \/ \E c \in CallerVars : Start(c)
    \/ \E c \in CallerVars, seg \in Segments : Access(c, seg)
    \/ \E c \in CallerVars, seg \in Segments, id \in NavIds : Call(c, seg, id)
    \/ \E c \in CallerVars, want \in Ops : VerbCall(c, want, <<>>)
    \/ \E k \in 1 .. Len(calls), ok \in BOOLEAN : Respond(k, ok)

SpecAlias == InitAlias /\ [][NextAlias]_vars

\* the six verbs of the documentation; delete is an alias of del
Verbs == {"create", "get", "list", "update", "patch", "del"}

\* the name the documentation gives a verb under the aliasing map
DocumentedName(verb) ==
    IF verb \in DOMAIN cfg.altMethodNames THEN cfg.altMethodNames[verb] ELSE verb

\* C17: under a map that renames some verbs to fresh names, every node
\* exposes each renamed verb under its new name and every other verb under its
\* default name, and a verb called by that name sends its unchanged HTTP
\* method to the route of the node.
C17_RenamedVerbsKept ==
    /\ \A o \in 1 .. Len(heap) :
          heap[o].kind \in {"fn", "inst"} =>
              \A verb \in Verbs :
                  /\ DocumentedName(verb) \in DOMAIN heap[o].props
                  /\ heap[o].props[DocumentedName(verb)].k = "verb"
                  /\ TableMethod(heap[o].props[DocumentedName(verb)].op)
                       = TableMethod(verb)
    /\ \A k \in 1 .. Len(calls) :
          LET inv == invs[calls[k].inv]
          IN  /\ calls[k].method = TableMethod(inv.want)
              /\ calls[k].url = routeOf(heap, inv.this, optsOf(cfg))

\* with {get: 'fetch'}, fetch on an instance sent 'get' and create is there
C17_Witness ==
    /\ cfg.altMethodNames = ("get" :> "fetch")
    /\ \E k \in 1 .. Len(calls) :
          LET inv == invs[calls[k].inv]
          IN  /\ inv.want = "get"
              /\ inv.name = "fetch"
              /\ heap[inv.this].kind = "inst"
              /\ calls[k].method = "get"
              /\ "create" \in DOMAIN heap[inv.this].props
              /\ "get" \notin DOMAIN heap[inv.this].props

\* the first segments of the declared paths, version prefixes included
FirstSegments ==
    LET firsts == {Head(q) : q \in DeclaredPrefixes}
    IN  IF firsts = {} THEN {} ELSE firsts \cup GlobalVersions

\* C18: the object construction returns is a callable with exactly one
\* property per distinct first segment of the declared paths, version
\* prefixes included; it has no verb method and no route accessor, and a
\* resource declared only below another is not a property of it.
C18_RootCarriesFirstSegments ==
    phase = "ready" /\ NavCount = 0 =>
        /\ heap[api].kind = "root"
        /\ DOMAIN heap[api].props = FirstSegments
        /\ \A n \in DOMAIN heap[api].props :
              /\ heap[api].props[n].k = "obj"
              /\ heap[heap[api].props[n].ref].kind = "fn"
              /\ heap[heap[api].props[n].ref].name = n
        /\ \A n \in {"create", "get", "del", "delete", "update", "list", "patch",
                     "getUrl", "_route"} : n \notin DOMAIN heap[api].props
        /\ \A q \in DeclaredPrefixes :
              q[Len(q)] \notin FirstSegments => q[Len(q)] \notin DOMAIN heap[api].props

\* versions 'v2' with the endpoint users/posts: the root has users and v2,
\* and posts is reached below users only
C18_Witness ==
    /\ phase = "ready"
    /\ NavCount = 0
    /\ cfg.versions = StrValue("v2")
    /\ cfg.endpoints = <<Str(<<"users", "/", "posts">>)>>
    /\ DOMAIN heap[api].props = {"users", "v2"}
    /\ \E c \in CallerVars : SegsOf(chain[c]) = <<"users", "posts">>

\* the instances made so far: the objects earlier calls resource(id) returned
Instances == {o \in 1 .. Len(heap) : heap[o].kind = "inst"}

\* the property of object t under which resource function f was attached is
\* still that function, so that t.name(id) can be called again
StillCallable(t, f) ==
    /\ heap[f].name \in DOMAIN heap[t].props
    /\ heap[t].props[heap[f].name] = ObjVal(f)

\* the resource function instance o was made by: the function named like o
\* whose accumulator is that of o
MakerOf(o) ==
    {f \in 1 .. Len(heap) :
        /\ heap[f].kind = "fn"
        /\ heap[f].name = heap[o].name
        /\ heap[f].accum = heap[o].accum
        /\ heap[f].v = heap[o].v}

\* C19: for every interleaving of calls of one resource function with
\* different identifiers, each call returns an object of its own, the route
\* of that object and of every node reached through it carries its own
\* identifier, and a later call never changes what an earlier instance
\* resolves to.
C19_InstancesIndependent ==
    \A o \in Instances :
        LET own == routeOf(heap, heap[o].self, optsOf(cfg))
        IN  /\ routeOf(heap, o, optsOf(cfg))
                 = (IF heap[heap[o].self].kind = "root"
                    THEN StripTrailing(cfg.root) ELSE own)
                   \o <<"/", heap[o].name, "/", heap[o].id>>
            /\ \A f \in 1 .. Len(heap) :
                  heap[f].kind = "fn" /\ heap[f].accum = o =>
                      routeOf(heap, f, optsOf(cfg))
                        = routeOf(heap, o, optsOf(cfg)) \o <<"/", heap[f].name>>
            /\ \A p \in Instances :
                  p # o /\ heap[p].name = heap[o].name /\ heap[p].self = heap[o].self
                  /\ heap[p].id # heap[o].id
                  => routeOf(heap, p, optsOf(cfg)) # routeOf(heap, o, optsOf(cfg))
            /\ \A f \in MakerOf(o) : StillCallable(heap[o].self, f)

----------------------------------------------------------------------------
(* Two clients built from one configuration *)

\* the caller's variables: a walks the first client, b the second
TwoVars == {"a", "b"}

\* a construction that finds the global versions already used up
compileAgainNoVersions(h, config) ==
    loop(Append(h, RootObj),
         [leaf |-> FALSE,
          kids |-> normalize(allResources([config EXCEPT !.versions = NoValue]))],
         Len(h) + 1, optsOf(config))

\* build(opts)(normalize(all)) when objects exist already: the accumulator is
\* a new function, the next object of the heap
compileAgain(h, config) ==
    loop(Append(h, RootObj),
         [leaf |-> FALSE, kids |-> normalize(allResources(config))],
         Len(h) + 1, optsOf(config))

\* quickrest(config) once more, with the configuration of the first client
ConstructAgain ==
    /\ phase = "ready"
    /\ api = 1
    /\ \A c \in TwoVars : cur[c] = 0
    /\ ~ (InvalidConfig(cfg) \/ MissingRequest(cfg))
    /\ heap' = compileAgain(heap, cfg)
    /\ api' = Len(heap) + 1
    /\ UNCHANGED <<cfg, phase, cur, chain, invs, calls, promises, delivered>>

\* a = first client, b = second client: the caller begins the same chain on
\* both, once the chains before it were the same on both
BeginBoth ==
    /\ phase = "ready"
    /\ api # 1
    /\ chain["a"] = chain["b"]
    /\ cur' = [c \in TwoVars |-> IF c = "a" THEN 1 ELSE api]
    /\ chain' = [c \in TwoVars |-> <<>>]
    /\ invs' = <<>>
    /\ calls' = <<>>
    /\ promises' = <<>>
    /\ delivered' = <<>>
    /\ UNCHANGED <<cfg, phase, heap, api>>

TwiceConfigs ==
    {[BaseConfig EXCEPT !.endpoints = <<Str(<<"users", "/", "posts">>),
                                        Str(<<"out">>)>>],
     [BaseConfig EXCEPT !.root = <<"r", "/">>,
                        !.endpoints = <<Str(<<"users", "/", "out">>)>>,
                        !.headers = ("Accept" :> "text/plain")],
     [BaseConfig EXCEPT !.versions = StrValue("v2"),
                        !.altMethodNames = ("get" :> "fetch")]}

InitTwice ==
    /\ cfg \in TwiceConfigs
    /\ phase = "new"
    /\ heap = <<>>
    /\ api = 0
    /\ cur = [c \in TwoVars |-> 0]
    /\ chain = [c \in TwoVars |-> <<>>]
    /\ invs = <<>>
    /\ calls = <<>>
    /\ promises = <<>>
    /\ delivered = <<>>

NextTwice ==
    \/ Construct
    \/ ConstructAgain
    \/ BeginBoth
    \/ \E c \in TwoVars, seg \in Segments \cup VersionNames : Access(c, seg)
    \/ \E c \in TwoVars, seg \in Segments \cup VersionNames, id \in Ids : Call(c, seg, id)
    \/ \E c \in TwoVars, want \in Ops : \E args \in ArgForms(want) : VerbCall(c, want, args)
    \/ \E k \in 1 .. Len(calls), ok \in BOOLEAN : Respond(k, ok)

SpecTwice == InitTwice /\ [][NextTwice]_vars

\* what property n of object o is, apart from the identity of the object it
\* refers to
Shape(o, n) ==
    LET p == heap[o].props[n]
    IN  IF p.k = "verb" THEN <<"verb", p.op>>
        ELSE IF p.k = "obj" THEN <<"obj", heap[p.ref].kind, heap[p.ref].name>>
        ELSE <<p.k>>

\* what calling verb want with args on object o hands to the factory, "none"
\* when o has no such verb
WouldSend(o, want, args) ==
    LET name == NameOf(cfg.altMethodNames, want)
    IN  IF name \in DOMAIN heap[o].props /\ heap[o].props[name].k = "verb"
           /\ heap[o].props[name].op \in Ops
        THEN <<"sends", protoCall(heap[o].props[name].op, heap[o].name,
                                  routeOf(heap, o, optsOf(cfg)), args, optsOf(cfg)).a>>
        ELSE <<"none">>

Other(c) == IF c = "a" THEN "b" ELSE "a"

----------------------------------------------------------------------------
(* One request and one outcome per invocation *)

\* C21: for every verb invocation and every behaviour of the hook (it
\* returns a value, it invokes the completion callback, or it does both),
\* the request function is called at most once and the callback of the
\* caller is invoked at most once.
C21_AtMostOneOutcome ==
    \A i \in 1 .. Len(invs) :
        cfg.beforeEach.on =>
            /\ Cardinality(CallsOf(i)) <= 1
            /\ Cardinality(DeliveriesOf(i)) <= 1

\* C22: when the hook returns a modification object and the caller gave the
\* verb a callback, that callback is handed to the request function and is
\* invoked exactly once, with the outcome of the transport.
C22_HookReturnKeepsCallback ==
    \A i \in 1 .. Len(invs) :
        /\ cfg.beforeEach.on
        /\ cfg.beforeEach.ret = "mod"
        /\ cfg.beforeEach.cb = "never"
        /\ GaveCallback(i)
        /\ ~invs[i].thenPending
        => /\ Cardinality(CallsOf(i)) = 1
           /\ \A k \in CallsOf(i) :
                 /\ calls[k].cb = CallerCb
                 /\ calls[k].done /\ cfg.request \in {"callback", "both"} =>
                       /\ Cardinality(DeliveriesOf(i)) = 1
                       /\ \A d \in DeliveriesOf(i) :
                             delivered[d].err = (IF calls[k].ok THEN "null"
                                                 ELSE "transportError")

\* the signals of the hook of invocation i that lead to a request: its
\* completion callback invoked without an error, and the value it returned
\* taken up by the promise reaction
HookSignals(i) ==
    (IF cfg.beforeEach.cb # "never" /\ ~invs[i].spyPending /\ ~cfg.beforeEach.err
     THEN 1 ELSE 0)
    + (IF cfg.beforeEach.ret = "mod" /\ ~invs[i].thenPending THEN 1 ELSE 0)

----------------------------------------------------------------------------
(* Roots with separators and whitespace *)

MaxRootLen == 3

\* the roots of 1..MaxRootLen characters over a letter, the separator and a
\* blank
RootStrings == {r \in ListsUpTo({"r", "/", " "}, MaxRootLen) : r # <<>>}

RootConfigs == {[BaseConfig EXCEPT !.root = r] : r \in RootStrings}

InitRoot == InitWith(RootConfigs)

SpecRoot == InitRoot /\ [][NextRoute]_vars

\* the prefix of a computed route that stands for the root: the URL without
\* the chain
RootPrefix(url, ch) == SubSeq(url, 1, Len(url) - Len(ChainUrl(ch)))

\* C24: for every root that validation accepts, roots with several trailing
\* '/' and with leading or trailing whitespace included, the root that
\* prefixes every computed route has no trailing '/' and no surrounding
\* whitespace.
C24_RootPrefixClean ==
    \A k \in 1 .. Len(calls) :
        LET pre == RootPrefix(calls[k].url, invs[calls[k].inv].chain)
        IN  pre # <<>> => pre[Len(pre)] \notin {"/", " "} /\ pre[1] # " "

----------------------------------------------------------------------------
(* The tree merger on its own: normalize placing a list in any order *)

MaxPlaced == 3

PlacePaths ==
    {<<"users">>, <<"posts">>, <<"users", "posts">>, <<"users", "out">>,
     <<"users", "posts", "out">>, <<"constructor">>, <<"users", "toString">>}

PlaceConfigs ==
    {[BaseConfig EXCEPT !.endpoints = l] :
        l \in ListsUpTo({Str(Join(q)) : q \in PlacePaths}, MaxPlaced) \ {<<>>}}

\* the list handed to normalize, in the order given
ToPlace == [i \in 1 .. Len(cfg.endpoints) |-> SegmentsOf(cfg.endpoints[i])]

\* the object out of normalize holding map
MapObj(map) ==
    [kind |-> "map", name |-> "", id |-> "", accum |-> 0, self |-> 0,
     v |-> [leaf |-> FALSE, kids |-> map], props |-> [x \in {} |-> VerbVal("")]]

\* const out = {}
NormalizeBegin ==
    /\ phase = "new"
    /\ phase' = "placing"
    /\ heap' = <<MapObj(<<>>)>>
    /\ UNCHANGED <<cfg, api, cur, chain, invs, calls, promises, delivered>>

\* place(out, xs) for the next xs of the list; the heap keeps the map as it
\* was before each placement
PlaceNext ==
    /\ phase = "placing"
    /\ Len(heap) <= Len(ToPlace)
    /\ heap' = Append(heap, MapObj(place(heap[Len(heap)].v.kids, ToPlace[Len(heap)])))
    /\ UNCHANGED <<cfg, phase, api, cur, chain, invs, calls, promises, delivered>>

InitPlace == InitWith(PlaceConfigs)

NextPlace == NormalizeBegin \/ PlaceNext

SpecPlace == InitPlace /\ [][NextPlace]_vars

\* the paths from the top of a map to its nodes
RECURSIVE TreePaths(_)
TreePaths(map) ==
    UNION {{<<map[i].name>>}
           \cup {<<map[i].name>> \o q : q \in TreePaths(map[i].kids)} :
           i \in 1 .. Len(map)}

\* the node of a map at a path of the map
RECURSIVE TreeNode(_, _)
TreeNode(map, path) ==
    LET e == map[IndexOf(map, Head(path))]
    IN  IF Len(path) = 1 THEN e ELSE TreeNode(e.kids, Tail(path))

\* no map of the tree holds a name twice
RECURSIVE NoDuplicates(_)
NoDuplicates(map) ==
    /\ \A i, j \in 1 .. Len(map) : map[i].name = map[j].name => i = j
    /\ \A i \in 1 .. Len(map) : NoDuplicates(map[i].kids)

\* the sequences placed when the heap holds n + 1 maps
PlacedAt(n) == {ToPlace[i] : i \in 1 .. n}

\* C25: after placing any sequence of non-empty segment sequences, the paths
\* of the tree are the non-empty prefixes of the placed sequences, a node is
\* internal exactly when a placed sequence extends past it, and a further
\* placement never removes a node, never duplicates a prefix and never turns
\* an internal node back into a leaf.
C25_TreeIsPrefixTree ==
    phase = "placing" =>
        \A n \in 0 .. Len(heap) - 1 :
            LET map == heap[n + 1].v.kids
            IN  /\ TreePaths(map) = UNION {Prefixes(q) : q \in PlacedAt(n)}
                /\ NoDuplicates(map)
                /\ \A q \in TreePaths(map) :
                      ~TreeNode(map, q).leaf <=>
                          \E r \in PlacedAt(n) :
                              Len(r) > Len(q) /\ SubSeq(r, 1, Len(q)) = q
                /\ n > 0 =>
                      LET before == heap[n].v.kids
                      IN  /\ TreePaths(before) \subseteq TreePaths(map)
                          /\ \A q \in TreePaths(before) :
                                ~TreeNode(before, q).leaf => ~TreeNode(map, q).leaf

----------------------------------------------------------------------------
(* Versions declared by configured endpoint records *)

RecordVersionConfigs ==
    {[BaseConfig EXCEPT !.endpoints = l] :
        l \in {<<Str(<<"users">>), Obj(<<"posts">>, StrValue("v2"), "")>>,
               <<Obj(<<"posts">>, ListValue(<<"v1", "v2">>), ""), Str(<<"users">>)>>,
               <<Str(<<"users", "/", "posts">>), Obj(<<"users">>, StrValue("v1"), "")>>}}

InitRecordVersion == InitWith(RecordVersionConfigs)

SpecRecordVersion == InitRecordVersion /\ [][NextVersion]_vars

\* the versions the configured endpoint records declare
RecordVersions ==
    UNION {LET vs == ConcatToList(cfg.endpoints[j].versions)
           IN  {vs[n] : n \in 1 .. Len(vs)} :
           j \in {j \in 1 .. Len(cfg.endpoints) : cfg.endpoints[j].isObj}}

\* C26: a version declared in the versions field of a configured endpoint
\* record joins the version set, and every string endpoint is then exposed
\* under that version as well as plainly, as for a global version.
C26_RecordVersionsApply ==
    phase = "ready" =>
        \A v \in RecordVersions \ {""} :
            \A j \in 1 .. Len(cfg.endpoints) :
                ~cfg.endpoints[j].isObj /\ DeclPath(cfg.endpoints[j]) # <<>> =>
                    /\ ResolvesAt(DeclPath(cfg.endpoints[j]))
                    /\ ResolvesAt(<<v>> \o DeclPath(cfg.endpoints[j]))

----------------------------------------------------------------------------
(* Compiled nodes after construction *)

\* C27: after construction, navigation and verb calls never add, remove or
\* replace a property of an existing node: a call resource(id) leaves the
\* node it was made on with the same properties bound to the same values.
C27_NodesImmutable ==
    [][phase = "ready" =>
          \A o \in 1 .. Len(heap) : heap'[o].props = heap[o].props]_vars

----------------------------------------------------------------------------
(* Verbs renamed to names already taken *)

CollideConfigs ==
    {[BaseConfig EXCEPT !.altMethodNames = mp,
                        !.endpoints = <<Str(<<"users">>),
                                        Str(<<"users", "/", "posts">>)>>] :
        mp \in {("get" :> "create"),
                ("list" :> "get"),
                ("del" :> "remove"),
                ("update" :> "patch") @@ ("patch" :> "update")}}

InitCollide == InitWith(CollideConfigs)

SpecCollide == InitCollide /\ [][NextAlias]_vars

\* C28: for every aliasing map, maps that rename a verb to the default name
\* of another verb and maps that rename del included, each of create, get,
\* list, update, patch and delete stays callable on every node under its
\* aliased or default name and issues its own HTTP method.
C28_EveryVerbKeepsItsMethod ==
    /\ \A k \in 1 .. Len(calls) :
          calls[k].method = TableMethod(invs[calls[k].inv].want)
    /\ \A o \in 1 .. Len(heap) :
          heap[o].kind \in {"fn", "inst"} =>
              \A verb \in Verbs :
                  LET name == DocumentedName(verb)
                  IN  /\ name \in DOMAIN heap[o].props
                      /\ heap[o].props[name].k = "verb"
                      /\ TableMethod(heap[o].props[name].op) = TableMethod(verb)

----------------------------------------------------------------------------
(* Headers of a request *)

ConfigHeaders == ("Accept" :> "text/html") @@ ("X-Api" :> "1")

\* configured headers that are absent or override a default and add a key,
\* under no hook and under hooks that pass a modification on, by returning
\* it, through the completion callback, or both
HeaderConfigs ==
    {[BaseConfig EXCEPT !.headers = h, !.beforeEach = hk] :
        h \in {EmptyMap, ConfigHeaders},
        hk \in {NoHook} \cup
               {k \in HookKinds :
                   \/ k.ret = "mod" /\ k.cb \in {"never", "sync"} /\ ~k.err
                   \/ k.ret = "undefined" /\ k.cb = "async"}}

InitHeaders == InitWith(HeaderConfigs)

SpecHeaders == InitHeaders /\ [][Next]_vars

\* the headers the hook of the configuration adds to a request
HookHeaders == IF cfg.beforeEach.on THEN cfg.beforeEach.mod.headers ELSE EmptyMap

----------------------------------------------------------------------------
(* A child resource named like a verb *)

VerbSegments == {"list", "get"}

ShadowConfigs ==
    {[BaseConfig EXCEPT !.endpoints = l] :
        l \in {<<Str(<<"users", "/", "list">>)>>,
               <<Str(<<"users">>), Str(<<"users", "/", "get">>)>>,
               <<Str(<<"users", "/", "list", "/", "posts">>),
                 Str(<<"users", "/", "get">>)>>}}

InitShadow == InitWith(ShadowConfigs)

NextShadow ==
    \/ Construct
    \/ \E c \in CallerVars : Start(c)
    \/ \E c \in CallerVars, seg \in Segments \cup VerbSegments : Access(c, seg)
    \/ \E c \in CallerVars, seg \in Segments \cup VerbSegments, id \in NavIds :
          Call(c, seg, id)
    \/ \E c \in CallerVars, want \in Ops : VerbCall(c, want, <<>>)
    \/ \E k \in 1 .. Len(calls), ok \in BOOLEAN : Respond(k, ok)

SpecShadow == InitShadow /\ [][NextShadow]_vars

\* the names of the child resources of node o
KidNames(o) == {heap[o].v.kids[j].name : j \in 1 .. Len(heap[o].v.kids)}

\* C30: when a declared child resource is named like a verb of its parent,
\* the parent, both the resource function and every instance, exposes the
\* child resource under that name instead of the verb, and every other verb
\* and the route of the parent are as without the child.
C30_ChildShadowsVerb ==
    /\ \A o \in 1 .. Len(heap) :
          heap[o].kind \in {"fn", "inst"} =>
              /\ \A n \in KidNames(o) :
                    /\ n \in DOMAIN heap[o].props
                    /\ heap[o].props[n].k = "obj"
                    /\ heap[heap[o].props[n].ref].kind = "fn"
                    /\ heap[heap[o].props[n].ref].name = n
                    /\ heap[heap[o].props[n].ref].accum = o
                    /\ routeOf(heap, heap[o].props[n].ref, optsOf(cfg))
                         = routeOf(heap, o, optsOf(cfg)) \o <<"/", n>>
              /\ \A verb \in Ops \ KidNames(o) :
                    /\ verb \in DOMAIN heap[o].props
                    /\ heap[o].props[verb] = VerbVal(verb)
    /\ \A k \in 1 .. Len(calls) :
          LET inv == invs[calls[k].inv]
          IN  /\ calls[k].method = TableMethod(inv.want)
              /\ calls[k].url = StripTrailing(cfg.root) \o ChainUrl(inv.chain)

\* api.users(id).list is the child resource, and a verb called on it sent its
\* request to the route of the child
C30_Witness ==
    \E k \in 1 .. Len(calls) :
        LET inv == invs[calls[k].inv]
        IN  /\ Len(inv.chain) = 2
            /\ inv.chain[1].seg = "users" /\ inv.chain[1].called
            /\ inv.chain[2].seg = "list" /\ ~inv.chain[2].called
            /\ heap[inv.this].kind = "fn"
            /\ heap[heap[inv.this].accum].kind = "inst"
            /\ calls[k].url = <<"r", "/", "users", "/", "9000", "/", "list">>

====
